---- MODULE Spec2Model ----
(***************************************************************************)
(* The request-authentication-and-dispatch pipeline of bloat's HTTP        *)
(* transport layer (service/transport.go): the dispatcher `handle`, the    *)
(* authentication gate, the route handlers registered by NewHandler and    *)
(* the response helpers, over a session store.                             *)
(*                                                                         *)
(* A request is served in two atomic steps, split where another request    *)
(* can touch the session store in between: HandleRequest (handle up to and *)
(* including the gate call, lines 90-115) and one business-logic action    *)
(* per handler (f(c), the error translation and the deferred log, lines    *)
(* 117-121 and 97-100). Up to MaxReqs requests are in flight at once.      *)
(***************************************************************************)
EXTENDS Integers, Sequences, FiniteSets, Bags, TLC

\* store, nextSid: the session store and the next identifier it issues
\* gated: the requests in flight that passed the dispatcher's gate call and
\*        whose business logic has not run yet (a bag of request contexts)
\* done:  the request that just finished, until its context is discarded
VARIABLES store, nextSid, gated, done

vars == <<store, nextSid, gated, done>>

\* ---------------------------------------------------------------- bounds
MaxReqs == 2
MaxSessions == 1

SIDs == 1..MaxSessions

\* ------------------------------------------------------------- constants
HTML == 0
JSON == 1

NOAUTH == 0
SESSION == 1
CSRF == 2

\* sessionExp = 365 * 24 * time.Hour, in hours
sessionExp == 365 * 24

StatusOK == 200
StatusFound == 302
StatusInternalServerError == 500

MethodGet == "GET"
MethodPost == "POST"

nil == "nil"
errInvalidSession == "errInvalidSession"
errInvalidCSRFToken == "errInvalidCSRFToken"
errBackendUnavailable == "errBackendUnavailable"
errNotFound == "errNotFound"
errMarshal == "errMarshal"
errWrite == "errWrite"

\* ------------------------------------------------------- request inputs
\* `var sid string`: the empty identifier of a request without the cookie
NoSid == 0
\* an identifier the store never issued
BogusSid == MaxSessions + 1
SidInputs == {NoSid, BogusSid} \cup SIDs

\* the value of a form field that is not in the request
NoToken == 0
deriveToken(sid) == 100 + sid
CsrfInputs == {NoToken} \cup {deriveToken(s) : s \in SIDs \cup {BogusSid}}

\* -------------------------------------------------------- session store
\* a session is anonymous, then authenticated; past its validity window it
\* is expired and stays so until it is destroyed
NoSession == [state |-> "none", instance |-> ""]

\* lookup: the session, if present and unexpired
lookup(st, sid) ==
  /\ sid \in SIDs
  /\ st[sid].state \in {"anonymous", "authenticated"}

\* what the store holds for an identifier
sessionClass(st, sid) ==
  IF sid = NoSid THEN "absent"
  ELSE IF sid \notin SIDs \/ st[sid].state = "none" THEN "unknown"
  ELSE st[sid].state

createSession(st, sid, instance) ==
  [st EXCEPT ![sid] = [state |-> "anonymous", instance |-> instance]]

promote(st, sid) ==
  [st EXCEPT ![sid].state = "authenticated"]

destroy(st, sid) ==
  IF sid \in SIDs THEN [st EXCEPT ![sid] = NoSession] ELSE st

validate(sid, presentedToken) ==
  /\ presentedToken # NoToken
  /\ presentedToken = deriveToken(sid)

\* what the request presented as csrf_token, against the identifier it carries
tokenClass(sid, csrf) ==
  IF csrf = NoToken THEN "missing"
  ELSE IF csrf = deriveToken(sid) THEN "match"
  ELSE "mismatch"

IsLoggedIn(c) == c.loggedIn

\* ------------------------------------------------------ response writer
NoCookie == [set |-> FALSE, value |-> NoSid, expiresIn |-> 0]

chunk(k, v) == [k |-> k, v |-> v]

\* c.w.WriteHeader: the first status is the one sent, a later call is
\* superfluous and changes nothing
WriteHeader(c, code) ==
  IF c.status = 0
    THEN [c EXCEPT !.status = code]
    ELSE [c EXCEPT !.superfluous = TRUE]

\* c.w.Write: sends the status 200 when none was sent yet, then the bytes
Write(c, k, v) ==
  LET c1 == IF c.status = 0 THEN [c EXCEPT !.status = StatusOK] ELSE c
  IN  [c1 EXCEPT !.body = Append(@, chunk(k, v))]

setSessionCookie(c, sid, exp) ==
  [c EXCEPT !.cookie = [set |-> TRUE, value |-> sid, expiresIn |-> exp]]

\* json.NewEncoder(c.w).Encode: the value is marshalled first and a marshal
\* error writes nothing; the encoding is then handed to c.w.Write, which
\* sends the status 200 and can fail before any byte of the body went out
\* ("write") or after a part of {"data": ...} went out ("partial")
writeJson(c, data, enc) ==
  CASE enc = "ok" -> [c |-> Write(c, "data", data), err |-> nil]
    [] enc = "marshal" -> [c |-> c, err |-> errMarshal]
    [] enc = "write" ->
         [c |-> IF c.status = 0 THEN [c EXCEPT !.status = StatusOK] ELSE c,
          err |-> errWrite]
    [] enc = "partial" -> [c |-> Write(c, "data", "truncated"), err |-> errWrite]

\* a header added after the status went out is not sent
redirect(c, url) ==
  WriteHeader(IF c.status = 0 THEN [c EXCEPT !.location = url] ELSE c, StatusFound)

ErrorPage(c, err, retry) ==
  Write(c, "errorPage", IF retry THEN "retry" ELSE "noretry")

writeError(c, err, t, retry) ==
  LET c1 == [c EXCEPT !.trace = Append(@, "writeError")]
  IN  CASE t = HTML -> ErrorPage(WriteHeader(c1, StatusInternalServerError), err, retry)
        [] t = JSON -> Write(WriteHeader(c1, StatusInternalServerError), "error", err)
        [] OTHER -> c1

\* ------------------------------------------------- authentication gate
\* s.authenticate(c, sid, csrf, ref, t): the gate for level t
sAuthenticate(c, sid, csrf, t, st, backendOK) ==
  IF t < SESSION THEN [c |-> c, err |-> nil]
  ELSE
    LET c1 == [c EXCEPT !.gsess = sessionClass(st, sid),
                         !.tok = IF t >= CSRF THEN tokenClass(sid, csrf) ELSE @]
    IN  IF ~lookup(st, sid) THEN [c |-> c1, err |-> errInvalidSession]
        ELSE
          LET c2 == [c1 EXCEPT !.s = sid,
                               !.loggedIn = (st[sid].state = "authenticated")]
          IN  IF t >= CSRF /\ ~validate(sid, csrf)
                THEN [c |-> c2, err |-> errInvalidCSRFToken]
              ELSE IF ~backendOK
                THEN [c |-> c2, err |-> errBackendUnavailable]
              ELSE [c |-> c2, err |-> nil]

\* faulty variant: a request without the cookie is answered with the error of
\* c.r.Cookie instead of being handed to the gate with an empty identifier
authenticate_cookieErr(c, csrf, t, st, backendOK) ==
  LET g == IF c.sid = NoSid /\ t >= SESSION
             THEN [c |-> [c EXCEPT !.gsess = "absent"], err |-> errNotFound]
             ELSE sAuthenticate(c, c.sid, csrf, t, st, backendOK)
  IN  [c |-> [g.c EXCEPT !.trace = Append(@, IF g.err = nil THEN "gate+" ELSE "gate-"),
                         !.gerr = g.err],
       err |-> g.err]

\* the closure authenticate: the cookie and the form field of the request,
\* handed to the gate
authenticate(c, csrf, t, st, backendOK) ==
  LET g == sAuthenticate(c, c.sid, csrf, t, st, backendOK)
  IN  [c |-> [g.c EXCEPT !.trace = Append(@, IF g.err = nil THEN "gate+" ELSE "gate-"),
                         !.gerr = g.err],
       err |-> g.err]

\* ------------------------------------------------------- the dispatcher
\* handle(f, at, rt): the closure a route is registered with
handle(f, at, rt) == [f |-> f, at |-> at, rt |-> rt]

HandleFunc(path, h, method) == [path |-> path, h |-> h, method |-> method]

ContentType(rt) ==
  CASE rt = HTML -> "text/html; charset=utf-8"
    [] rt = JSON -> "application/json"
    [] OTHER -> ""

\* faulty variant: the log arguments are evaluated when the defer statement runs,
\* so the record always carries the initial nil error
deferLog_byValue(c) ==
  [c EXCEPT !.logged = Append(@, nil), !.trace = Append(@, "log"), !.pc = "done"]

\* the deferred logger.Printf: one record with the value of err at exit
deferLog(c) ==
  [c EXCEPT !.logged = Append(@, c.err), !.trace = Append(@, "log"), !.pc = "done"]

newClient(h, method, sid) ==
  [pc |-> "idle", method |-> method, f |-> h.f, at |-> h.at, rt |-> h.rt,
   sid |-> sid, s |-> NoSid, loggedIn |-> FALSE, gsess |-> "unchecked", tok |-> "unchecked",
   gerr |-> nil, err |-> nil, status |-> 0, ctype |-> "", location |-> "", cookie |-> NoCookie,
   body |-> <<>>, superfluous |-> FALSE, trace |-> <<>>, logged |-> <<>>,
   ran |-> FALSE, core |-> FALSE, effect |-> FALSE, panicked |-> FALSE,
   count |-> ""]

NoRequest == newClient(handle("", NOAUTH, HTML), "", NoSid)

\* faulty variant: the gate's error is dropped and the request goes on to f(c)
handleEnter_ignoresGate(c, csrf, st, backendOK) ==
  LET c1 == [c EXCEPT !.ctype = ContentType(c.rt), !.trace = Append(@, "ct")]
      g == authenticate(c1, csrf, c.at, st, backendOK)
  IN  [g.c EXCEPT !.pc = "gated"]

\* faulty variant: only an invalid session stops the request at the gate
handleEnter_onlySessionErr(c, csrf, st, backendOK) ==
  LET c1 == [c EXCEPT !.ctype = ContentType(c.rt), !.trace = Append(@, "ct")]
      g == authenticate(c1, csrf, c.at, st, backendOK)
      c2 == [g.c EXCEPT !.err = g.err]
  IN  IF g.err = errInvalidSession
        THEN deferLog(writeError(c2, g.err, c.rt, c.method = MethodGet))
        ELSE [g.c EXCEPT !.pc = "gated"]

\* faulty variant: the content type is set after the gate's error was written
handleEnter_ctLate(c, csrf, st, backendOK) ==
  LET g == authenticate(c, csrf, c.at, st, backendOK)
      c2 == [g.c EXCEPT !.err = g.err]
      ct(x) == [x EXCEPT !.ctype = IF x.status = 0 THEN ContentType(c.rt) ELSE @,
                         !.trace = Append(@, "ct")]
  IN  IF g.err # nil
        THEN deferLog(ct(writeError(c2, g.err, c.rt, c.method = MethodGet)))
        ELSE [ct(c2) EXCEPT !.pc = "gated"]

\* faulty variant: the dispatcher answers an invalid session on any route with the
\* redirect to /signin
handleEnter_softSession(c, csrf, st, backendOK) ==
  LET c1 == [c EXCEPT !.ctype = ContentType(c.rt), !.trace = Append(@, "ct")]
      g == authenticate(c1, csrf, c.at, st, backendOK)
      c2 == [g.c EXCEPT !.err = g.err]
  IN  IF g.err = errInvalidSession
        THEN deferLog(redirect([c2 EXCEPT !.err = nil], "/signin"))
      ELSE IF g.err # nil
        THEN deferLog(writeError(c2, g.err, c.rt, c.method = MethodGet))
      ELSE [c2 EXCEPT !.pc = "gated"]

\* handle, lines 102-115: the content type, then the gate; a gate error is
\* written and the handler returns
handleEnter(c, csrf, st, backendOK) ==
  LET c1 == [c EXCEPT !.ctype = ContentType(c.rt), !.trace = Append(@, "ct")]
      g == authenticate(c1, csrf, c.at, st, backendOK)
      c2 == [g.c EXCEPT !.err = g.err]
  IN  IF g.err # nil
        THEN deferLog(writeError(c2, g.err, c.rt, c.method = MethodGet))
        ELSE [c2 EXCEPT !.pc = "gated"]

\* faulty variant: one client context per route, shared by the requests of the
\* route that are in flight, instead of one per request
handleExit_sharedClient(c, err) ==
  LET o == CHOOSE x \in BagToSet(gated) \cup {c} : x.f = c.f
      c1 == [c EXCEPT !.err = err, !.sid = o.sid, !.s = o.s, !.tok = o.tok]
  IN  IF err # nil
        THEN deferLog(writeError(c1, err, c.rt, c.method = MethodGet))
        ELSE deferLog(c1)

\* handle, lines 117-121: the error f(c) returned is written; then the
\* deferred log runs
handleExit(c, err) ==
  LET c1 == [c EXCEPT !.err = err]
  IN  IF err # nil
        THEN deferLog(writeError(c1, err, c.rt, c.method = MethodGet))
        ELSE deferLog(c1)

\* f(c) is entered
enter(c) == [c EXCEPT !.ran = TRUE, !.trace = Append(@, "f")]

\* ------------------------------------------------- the handlers, NewHandler
\* faulty variant: GET / registered at level SESSION
rootPage_session == handle("rootPage", SESSION, HTML)

rootPage == handle("rootPage", NOAUTH, HTML)
navPage == handle("page", SESSION, HTML)
signinPage == handle("signinPage", NOAUTH, HTML)
timelinePage == handle("page", SESSION, HTML)
defaultTimelinePage == handle("defaultTimelinePage", SESSION, HTML)
threadPage == handle("page", SESSION, HTML)
likedByPage == handle("page", SESSION, HTML)
retweetedByPage == handle("page", SESSION, HTML)
notificationsPage == handle("page", SESSION, HTML)
userPage == handle("page", SESSION, HTML)
userSearchPage == handle("page", SESSION, HTML)
aboutPage == handle("page", SESSION, HTML)
emojisPage == handle("page", SESSION, HTML)
searchPage == handle("page", SESSION, HTML)
settingsPage == handle("page", SESSION, HTML)
filtersPage == handle("page", SESSION, HTML)
signin == handle("signin", NOAUTH, HTML)
oauthCallback == handle("oauthCallback", SESSION, HTML)
post == handle("post", CSRF, HTML)
\* faulty variant: POST /like registered at level SESSION
like_session == handle("statusAction", SESSION, HTML)

like == handle("statusAction", CSRF, HTML)
unlike == handle("statusAction", CSRF, HTML)
retweet == handle("statusAction", CSRF, HTML)
unretweet == handle("statusAction", CSRF, HTML)
vote == handle("vote", CSRF, HTML)
follow == handle("action", CSRF, HTML)
unfollow == handle("action", CSRF, HTML)
accept == handle("action", CSRF, HTML)
reject == handle("action", CSRF, HTML)
mute == handle("action", CSRF, HTML)
unMute == handle("action", CSRF, HTML)
block == handle("action", CSRF, HTML)
unBlock == handle("action", CSRF, HTML)
subscribe == handle("action", CSRF, HTML)
unSubscribe == handle("action", CSRF, HTML)
settings == handle("settings", CSRF, HTML)
muteConversation == handle("action", CSRF, HTML)
unMuteConversation == handle("action", CSRF, HTML)
delete == handle("action", CSRF, HTML)
readNotifications == handle("action", CSRF, HTML)
bookmark == handle("statusAction", CSRF, HTML)
unBookmark == handle("statusAction", CSRF, HTML)
filter == handle("action", CSRF, HTML)
unFilter == handle("action", CSRF, HTML)
\* faulty variant: POST /signout registered without a gate level
signout_noauth == handle("signout", NOAUTH, HTML)

signout == handle("signout", CSRF, HTML)
fLike == handle("fluoride", CSRF, JSON)
fUnlike == handle("fluoride", CSRF, JSON)
fRetweet == handle("fluoride", CSRF, JSON)
fUnretweet == handle("fluoride", CSRF, JSON)

Routes ==
  {
    HandleFunc("/", rootPage, MethodGet),
    HandleFunc("/nav", navPage, MethodGet),
    HandleFunc("/signin", signinPage, MethodGet),
    HandleFunc("/timeline/{type}", timelinePage, MethodGet),
    HandleFunc("/timeline", defaultTimelinePage, MethodGet),
    HandleFunc("/thread/{id}", threadPage, MethodGet),
    HandleFunc("/likedby/{id}", likedByPage, MethodGet),
    HandleFunc("/retweetedby/{id}", retweetedByPage, MethodGet),
    HandleFunc("/notifications", notificationsPage, MethodGet),
    HandleFunc("/user/{id}", userPage, MethodGet),
    HandleFunc("/user/{id}/{type}", userPage, MethodGet),
    HandleFunc("/usersearch/{id}", userSearchPage, MethodGet),
    HandleFunc("/about", aboutPage, MethodGet),
    HandleFunc("/emojis", emojisPage, MethodGet),
    HandleFunc("/search", searchPage, MethodGet),
    HandleFunc("/settings", settingsPage, MethodGet),
    HandleFunc("/filters", filtersPage, MethodGet),
    HandleFunc("/signin", signin, MethodPost),
    HandleFunc("/oauth_callback", oauthCallback, MethodGet),
    HandleFunc("/post", post, MethodPost),
    HandleFunc("/like/{id}", like, MethodPost),
    HandleFunc("/unlike/{id}", unlike, MethodPost),
    HandleFunc("/retweet/{id}", retweet, MethodPost),
    HandleFunc("/unretweet/{id}", unretweet, MethodPost),
    HandleFunc("/vote/{id}", vote, MethodPost),
    HandleFunc("/follow/{id}", follow, MethodPost),
    HandleFunc("/unfollow/{id}", unfollow, MethodPost),
    HandleFunc("/accept/{id}", accept, MethodPost),
    HandleFunc("/reject/{id}", reject, MethodPost),
    HandleFunc("/mute/{id}", mute, MethodPost),
    HandleFunc("/unmute/{id}", unMute, MethodPost),
    HandleFunc("/block/{id}", block, MethodPost),
    HandleFunc("/unblock/{id}", unBlock, MethodPost),
    HandleFunc("/subscribe/{id}", subscribe, MethodPost),
    HandleFunc("/unsubscribe/{id}", unSubscribe, MethodPost),
    HandleFunc("/settings", settings, MethodPost),
    HandleFunc("/muteconv/{id}", muteConversation, MethodPost),
    HandleFunc("/unmuteconv/{id}", unMuteConversation, MethodPost),
    HandleFunc("/delete/{id}", delete, MethodPost),
    HandleFunc("/notifications/read", readNotifications, MethodPost),
    HandleFunc("/bookmark/{id}", bookmark, MethodPost),
    HandleFunc("/unbookmark/{id}", unBookmark, MethodPost),
    HandleFunc("/filter", filter, MethodPost),
    HandleFunc("/unfilter/{id}", unFilter, MethodPost),
    HandleFunc("/signout", signout, MethodPost),
    HandleFunc("/fluoride/like/{id}", fLike, MethodPost),
    HandleFunc("/fluoride/unlike/{id}", fUnlike, MethodPost),
    HandleFunc("/fluoride/retweet/{id}", fRetweet, MethodPost),
    HandleFunc("/fluoride/unretweet/{id}", fUnretweet, MethodPost)
  }
\* ------------------------------------------------- service collaborators
\* the instances a session can be bound to: the `instance` form field of
\* POST /signin, and what s.SingleInstance() returns
Instances == {"example.social"}
Counts == {"41", "42"}

\* c.r.FormValue("referrer"): a string the caller chooses
Referrers == {"/signin", "/timeline/home"}
\* mux.Vars(c.r)["id"], never empty; the form fields retweeted_by_id,
\* status_id and reply_to_id, empty when not sent; the id s.Post returns
StatusIDs == {"42"}
OptionalIDs == {"", "7"}
PostedIDs == {"9"}

\* s.RootPage, s.NavPage, ...: the page is rendered, or the backend fails
sPage(c, res) ==
  LET c1 == [c EXCEPT !.core = TRUE]
  IN  IF res = "ok"
        THEN [c |-> Write(c1, "page", ""), err |-> nil]
        ELSE [c |-> c1, err |-> errBackendUnavailable]

\* s.NewSession: a new anonymous session under a fresh identifier and the
\* authorization URL of the instance, or BackendUnavailable
sNewSession(st, next, instance, ok) ==
  IF ok /\ next \in SIDs
    THEN [url |-> "authURL", sid |-> next, err |-> nil,
          store |-> createSession(st, next, instance), nextSid |-> next + 1]
    ELSE [url |-> "", sid |-> NoSid, err |-> errBackendUnavailable,
          store |-> st, nextSid |-> next]

\* s.Signin: the code is exchanged, then the session is promoted; NotFound
\* when the session is gone by then
sSignin(c, st, codeOK) ==
  LET c1 == [c EXCEPT !.core = TRUE]
  IN  IF ~codeOK THEN [c |-> c, err |-> errBackendUnavailable, store |-> st]
      ELSE IF ~lookup(st, c.s) THEN [c |-> c1, err |-> errNotFound, store |-> st]
      ELSE [c |-> c1, err |-> nil, store |-> promote(st, c.s)]

\* s.Signout: the session is destroyed
sSignout(c, st) == destroy(st, c.s)

\* s.Like, s.Follow, ...: the remote action is done, or the backend fails
sAction(c, res) ==
  LET c1 == [c EXCEPT !.core = TRUE]
  IN  IF res = "ok"
        THEN [c |-> [c1 EXCEPT !.effect = TRUE], err |-> nil]
        ELSE [c |-> c1, err |-> errBackendUnavailable]

\* ------------------------------------------------------- route handlers
\* faulty variant: the page trusts the dispatcher's gate and does not call it again
fRootPage_noGate(c, csrf, st, backendOK, res) ==
  IF ~IsLoggedIn(c)
    THEN [c |-> redirect(c, "/signin"), err |-> nil]
    ELSE sPage(c, res)

\* faulty variant: an invalid session is returned as an error like any other
fRootPage_hard(c, csrf, st, backendOK, res) ==
  LET g == authenticate(c, csrf, SESSION, st, backendOK)
  IN  IF g.err # nil THEN [c |-> g.c, err |-> g.err]
      ELSE IF ~IsLoggedIn(g.c)
        THEN [c |-> redirect(g.c, "/signin"), err |-> nil]
      ELSE sPage(g.c, res)

fRootPage(c, csrf, st, backendOK, res) ==
  LET g == authenticate(c, csrf, SESSION, st, backendOK)
  IN  IF g.err # nil
        THEN IF g.err = errInvalidSession
               THEN [c |-> redirect(g.c, "/signin"), err |-> nil]
               ELSE [c |-> g.c, err |-> g.err]
      ELSE IF ~IsLoggedIn(g.c)
        THEN [c |-> redirect(g.c, "/signin"), err |-> nil]
      ELSE sPage(g.c, res)

fPage(c, res) == sPage(c, res)

\* faulty variant: the cookie is set before the error of s.NewSession is looked at
fSigninPage_cookieFirst(c, single, ns, res) ==
  IF ~single THEN sPage(c, res)
  ELSE IF ns.err # nil
    THEN [c |-> setSessionCookie(c, ns.sid, sessionExp), err |-> ns.err]
  ELSE [c |-> redirect(setSessionCookie(c, ns.sid, sessionExp), ns.url), err |-> nil]

fSigninPage(c, single, ns, res) ==
  IF ~single THEN sPage(c, res)
  ELSE IF ns.err # nil THEN [c |-> c, err |-> ns.err]
  ELSE [c |-> redirect(setSessionCookie(c, ns.sid, sessionExp), ns.url), err |-> nil]

fDefaultTimelinePage(c) ==
  [c |-> redirect(c, "/timeline/home"), err |-> nil]

\* faulty variant: the cookie is set before the error of s.NewSession is looked at
fSignin_cookieFirst(c, ns) ==
  LET c1 == setSessionCookie(c, ns.sid, sessionExp)
  IN  IF ns.err # nil THEN [c |-> c1, err |-> ns.err]
      ELSE [c |-> redirect(c1, ns.url), err |-> nil]

fSignin(c, ns) ==
  IF ns.err # nil THEN [c |-> c, err |-> ns.err]
  ELSE [c |-> redirect(setSessionCookie(c, ns.sid, sessionExp), ns.url), err |-> nil]

\* faulty variant: the error of s.Signin is dropped
fOauthCallback_ignoresErr(c, sg) ==
  [c |-> redirect(sg.c, "/"), err |-> nil]

\* faulty variant: the redirect is written before s.Signin is called
fOauthCallback_redirectFirst(c, sg) ==
  [c |-> redirect(sg.c, "/"), err |-> sg.err]

fOauthCallback(c, sg) ==
  IF sg.err # nil THEN [c |-> sg.c, err |-> sg.err]
  ELSE [c |-> redirect(sg.c, "/"), err |-> nil]

\* c.r.MultipartForm is nil unless the body is multipart/form-data: reading
\* its File field then panics, and only the deferred log runs. A post is
\* answered with the referrer, a reply with the anchor of the new status in
\* its thread.
fPost(c, multipart, res, referrer, replyToID, id) ==
  IF ~multipart THEN [c |-> [c EXCEPT !.panicked = TRUE], err |-> nil]
  ELSE
    LET a == sAction(c, res)
        location == IF replyToID # ""
                      THEN "/thread/" \o replyToID \o "#status-" \o id
                      ELSE referrer
    IN  IF a.err # nil THEN a
        ELSE [c |-> redirect(a.c, location), err |-> nil]

\* like, unlike, retweet, unretweet, bookmark, unBookmark: back to the
\* referrer, at the anchor of the status (of the retweet it was shown in)
fStatusAction(c, res, referrer, id, rid) ==
  LET a == sAction(c, res)
      anchor == IF rid # "" THEN rid ELSE id
  IN  IF a.err # nil THEN a
      ELSE [c |-> redirect(a.c, referrer \o "#status-" \o anchor), err |-> nil]

\* vote: back to the referrer, at the anchor the form field status_id names
fVote(c, res, referrer, statusID) ==
  LET a == sAction(c, res)
  IN  IF a.err # nil THEN a
      ELSE [c |-> redirect(a.c, referrer \o "#status-" \o statusID), err |-> nil]

\* follow, unfollow, ..., unFilter: back to the referrer as it was sent
fAction(c, res, referrer) ==
  LET a == sAction(c, res)
  IN  IF a.err # nil THEN a
      ELSE [c |-> redirect(a.c, referrer), err |-> nil]

\* settings: back to the root page, whatever the referrer; the session store
\* is not among what s.SaveSettings is specified to write
fSettings(c, res) ==
  LET a == sAction(c, res)
  IN  IF a.err # nil THEN a
      ELSE [c |-> redirect(a.c, "/"), err |-> nil]

fSignout(c) ==
  [c |-> redirect(setSessionCookie(c, NoSid, 0), "/"), err |-> nil]

\* count, err := s.Like(c, id): c.count keeps the count the action returned
fFluoride(c, res, count, enc) ==
  LET a == sAction(c, res)
  IN  IF a.err # nil THEN a
      ELSE writeJson([a.c EXCEPT !.count = count], count, enc)

\* ----------------------------------------------------------------- state
Init ==
  /\ store = [s \in SIDs |-> NoSession]
  /\ nextSid = 1
  /\ gated = EmptyBag
  /\ done = NoRequest

\* the handlers the router dispatches to, with the method they serve
Closures == {[h |-> rt.h, method |-> rt.method] : rt \in Routes}

\* a finished request is discarded before anything else happens
Idle == done.pc = "idle"

Gated(c, f) ==
  /\ Idle
  /\ BagIn(c, gated)
  /\ c.f = f

Take(c) == gated (-) SetToBag({c})

\* The inputs of a gate call at level t for identifier sid that the gate
\* reads: the token at level CSRF only, the backend's answer only for a
\* session it found. The other values give the same step.
TokensRead(t) == IF t >= CSRF THEN CsrfInputs ELSE {NoToken}

BackendRead(t, sid) == IF t >= SESSION /\ lookup(store, sid) THEN BOOLEAN ELSE {TRUE}

\* a request arrives: handle runs up to the gate
HandleRequest ==
  /\ Idle
  /\ BagCardinality(gated) < MaxReqs
  /\ \E cl \in Closures, sid \in SidInputs :
     \E csrf \in TokensRead(cl.h.at), backendOK \in BackendRead(cl.h.at, sid) :
       LET c == handleEnter(newClient(cl.h, cl.method, sid), csrf, store, backendOK)
       IN  IF c.pc = "done"
             THEN done' = c /\ UNCHANGED gated
             ELSE gated' = gated (+) SetToBag({c}) /\ UNCHANGED done
  /\ UNCHANGED <<store, nextSid>>

RootPage ==
  \E c \in BagToSet(gated) :
    /\ Gated(c, "rootPage")
    /\ \E csrf \in TokensRead(SESSION), backendOK \in BackendRead(SESSION, c.sid),
          res \in {"ok", "err"} :
         LET b == fRootPage(enter(c), csrf, store, backendOK, res)
         IN  done' = handleExit(b.c, b.err)
    /\ gated' = Take(c)
    /\ UNCHANGED <<store, nextSid>>

Page ==
  \E c \in BagToSet(gated) :
    /\ Gated(c, "page")
    /\ \E res \in {"ok", "err"} :
         LET b == fPage(enter(c), res)
         IN  done' = handleExit(b.c, b.err)
    /\ gated' = Take(c)
    /\ UNCHANGED <<store, nextSid>>

SigninPage ==
  \E c \in BagToSet(gated) :
    /\ Gated(c, "signinPage")
    /\ \E single \in BOOLEAN, instance \in Instances, ok \in BOOLEAN, res \in {"ok", "err"} :
         LET ns == sNewSession(store, nextSid, instance, ok)
             b == fSigninPage(enter(c), single, ns, res)
         IN  /\ done' = handleExit(b.c, b.err)
             /\ store' = IF single THEN ns.store ELSE store
             /\ nextSid' = IF single THEN ns.nextSid ELSE nextSid
    /\ gated' = Take(c)

DefaultTimelinePage ==
  \E c \in BagToSet(gated) :
    /\ Gated(c, "defaultTimelinePage")
    /\ LET b == fDefaultTimelinePage(enter(c))
       IN  done' = handleExit(b.c, b.err)
    /\ gated' = Take(c)
    /\ UNCHANGED <<store, nextSid>>

Signin ==
  \E c \in BagToSet(gated) :
    /\ Gated(c, "signin")
    /\ \E instance \in Instances, ok \in BOOLEAN :
         LET ns == sNewSession(store, nextSid, instance, ok)
             b == fSignin(enter(c), ns)
         IN  /\ done' = handleExit(b.c, b.err)
             /\ store' = ns.store
             /\ nextSid' = ns.nextSid
    /\ gated' = Take(c)

OauthCallback ==
  \E c \in BagToSet(gated) :
    /\ Gated(c, "oauthCallback")
    /\ \E codeOK \in BOOLEAN :
         LET sg == sSignin(enter(c), store, codeOK)
             b == fOauthCallback(enter(c), sg)
         IN  /\ done' = handleExit(b.c, b.err)
             /\ store' = sg.store
    /\ gated' = Take(c)
    /\ UNCHANGED nextSid

Post ==
  \E c \in BagToSet(gated) :
    /\ Gated(c, "post")
    /\ \E multipart \in BOOLEAN, res \in {"ok", "err"}, referrer \in Referrers,
          replyToID \in OptionalIDs, id \in PostedIDs :
         LET b == fPost(enter(c), multipart, res, referrer, replyToID, id)
         IN  done' = handleExit(b.c, b.err)
    /\ gated' = Take(c)
    /\ UNCHANGED <<store, nextSid>>

StatusAction ==
  \E c \in BagToSet(gated) :
    /\ Gated(c, "statusAction")
    /\ \E res \in {"ok", "err"}, referrer \in Referrers, id \in StatusIDs,
          rid \in OptionalIDs :
         LET b == fStatusAction(enter(c), res, referrer, id, rid)
         IN  done' = handleExit(b.c, b.err)
    /\ gated' = Take(c)
    /\ UNCHANGED <<store, nextSid>>

Vote ==
  \E c \in BagToSet(gated) :
    /\ Gated(c, "vote")
    /\ \E res \in {"ok", "err"}, referrer \in Referrers, statusID \in OptionalIDs :
         LET b == fVote(enter(c), res, referrer, statusID)
         IN  done' = handleExit(b.c, b.err)
    /\ gated' = Take(c)
    /\ UNCHANGED <<store, nextSid>>

Action ==
  \E c \in BagToSet(gated) :
    /\ Gated(c, "action")
    /\ \E res \in {"ok", "err"}, referrer \in Referrers :
         LET b == fAction(enter(c), res, referrer)
         IN  done' = handleExit(b.c, b.err)
    /\ gated' = Take(c)
    /\ UNCHANGED <<store, nextSid>>

Settings ==
  \E c \in BagToSet(gated) :
    /\ Gated(c, "settings")
    /\ \E res \in {"ok", "err"} :
         LET b == fSettings(enter(c), res)
         IN  done' = handleExit(b.c, b.err)
    /\ gated' = Take(c)
    /\ UNCHANGED <<store, nextSid>>

Signout ==
  \E c \in BagToSet(gated) :
    /\ Gated(c, "signout")
    /\ LET b == fSignout(enter(c))
       IN  done' = handleExit(b.c, b.err)
    /\ store' = sSignout(c, store)
    /\ gated' = Take(c)
    /\ UNCHANGED nextSid

Fluoride ==
  \E c \in BagToSet(gated) :
    /\ Gated(c, "fluoride")
    /\ \E res \in {"ok", "err"}, count \in Counts, enc \in {"ok", "marshal", "write", "partial"} :
         LET b == fFluoride(enter(c), res, count, enc)
         IN  done' = handleExit(b.c, b.err)
    /\ gated' = Take(c)
    /\ UNCHANGED <<store, nextSid>>

\* the request context is discarded at the end of the request
Discard ==
  /\ done.pc = "done"
  /\ done' = NoRequest
  /\ UNCHANGED <<store, nextSid, gated>>

\* time passes the expiry of a session
Expire ==
  \E s \in SIDs :
    /\ Idle
    /\ lookup(store, s)
    /\ store' = [store EXCEPT ![s].state = "expired"]
    /\ UNCHANGED <<nextSid, gated, done>>

Next ==
  \/ HandleRequest
  \/ RootPage
  \/ Page
  \/ SigninPage
  \/ DefaultTimelinePage
  \/ Signin
  \/ OauthCallback
  \/ Post
  \/ StatusAction
  \/ Vote
  \/ Action
  \/ Settings
  \/ Signout
  \/ Fluoride
  \/ Discard
  \/ Expire

Spec == Init /\ [][Next]_vars

\* ================================================================ claims
Finished == done.pc = "done"

InFlight == BagToSet(gated)

Count(seq, e) == Cardinality({i \in DOMAIN seq : seq[i] = e})

GateCalls(c) == Count(c.trace, "gate+") + Count(c.trace, "gate-")

InvalidClasses == {"absent", "unknown", "expired"}
ValidClasses == {"anonymous", "authenticated"}

\* the cookie is cleared: an empty value with Expires = time.Now().Add(0),
\* which is over when the response arrives
CookieCleared(c) ==
  /\ c.cookie.set
  /\ c.cookie.value = NoSid
  /\ c.cookie.expiresIn <= 0

\* the routes registered at a level, as (method, path)
RoutesAt(at) == {<<rt.method, rt.path>> : rt \in {x \in Routes : x.h.at = at}}

\* C1: on a route registered SESSION or CSRF, a request whose session_id is
\* absent, unknown or expired fails the dispatcher's gate with InvalidSession
\* and its business logic is never invoked; a request of such a route that
\* waits for its business logic resolved a valid session.
C1_InvalidSessionStopsAtGate ==
  /\ (Finished /\ done.at \in {SESSION, CSRF} /\ done.gsess \in InvalidClasses)
       => /\ done.err = errInvalidSession
          /\ done.gerr = errInvalidSession
          /\ ~done.ran /\ ~done.core /\ ~done.effect
  /\ \A c \in InFlight :
       c.at \in {SESSION, CSRF} => c.gsess \in ValidClasses

\* C1 witness: a SESSION route answered an expired session with InvalidSession
C1_Witness ==
  /\ Finished /\ done.at = SESSION /\ done.gsess = "expired"
  /\ done.err = errInvalidSession /\ ~done.ran

\* C2: on a route registered CSRF, a request with a valid session (anonymous
\* or authenticated) whose csrf_token is missing or differs from the
\* session's token fails with InvalidCsrf, is answered 500 and never reaches
\* business logic (no action is recorded); a request that waits for its
\* business logic presented the matching token.
C2_InvalidCsrfStopsAtGate ==
  /\ (Finished /\ done.at = CSRF /\ done.gsess \in ValidClasses
        /\ done.tok \in {"missing", "mismatch"})
       => /\ done.err = errInvalidCSRFToken
          /\ done.status = StatusInternalServerError
          /\ ~done.ran /\ ~done.core /\ ~done.effect
  /\ \A c \in InFlight : c.at = CSRF => c.tok = "match"

\* C2 witness: POST of an action with an authenticated session and a wrong
\* token was answered 500 with InvalidCsrf
C2_Witness ==
  /\ Finished /\ done.f = "action" /\ done.gsess = "authenticated"
  /\ done.tok = "mismatch" /\ done.err = errInvalidCSRFToken
  /\ done.status = StatusInternalServerError /\ ~done.effect

\* the routes registered without a gate level
NoAuthRoutes == RoutesAt(NOAUTH)

\* C3: the routes registered NOAUTH are GET /, GET /signin and POST /signin,
\* and a request of such a route without a session_id cookie passes the
\* dispatcher's gate and has its business logic invoked.
C3_NoAuthReachesLogic ==
  /\ NoAuthRoutes =
       {<<MethodGet, "/">>, <<MethodGet, "/signin">>, <<MethodPost, "/signin">>}
  /\ (Finished /\ done.at = NOAUTH /\ done.sid = NoSid)
       => /\ done.ran
          /\ SubSeq(done.trace, 1, 3) = <<"ct", "gate+", "f">>
  /\ Finished /\ done.at = NOAUTH => done.ran

\* C3 witness: POST /signin without a cookie and with an empty store ran its
\* business logic
C3_Witness ==
  /\ Finished /\ done.f = "signin" /\ done.sid = NoSid /\ done.ran
  /\ done.err # nil
  /\ \A s \in SIDs : store[s].state = "none"

\* C4: a finished request has exactly one log record, on every exit path; the
\* record carries the error that ended the pipeline (the error that was
\* written) or nil, and it is the last step, after the gate ran.
C4_OneLogRecord ==
  /\ Finished =>
       /\ Len(done.logged) = 1
       /\ Count(done.trace, "log") = 1
       /\ done.trace[Len(done.trace)] = "log"
       /\ done.trace[2] \in {"gate+", "gate-"}
       /\ (done.logged[1] # nil) <=> (Count(done.trace, "writeError") = 1)
       /\ done.trace[2] = "gate-" => done.logged[1] = done.gerr
       /\ (done.logged[1] # nil /\ done.rt = JSON)
            => done.body[Len(done.body)] = chunk("error", done.logged[1])
  /\ \A c \in InFlight : c.logged = <<>>

\* C4 witness: a request that failed in its business logic logged that error
C4_Witness ==
  /\ Finished /\ done.ran /\ done.trace[2] = "gate+"
  /\ done.logged = <<errBackendUnavailable>>

\* C5 (as claimed): the gate is invoked exactly once in every request.
C5_GateExactlyOnce ==
  Finished => GateCalls(done) = 1

\* C5 (amended): every request passes the dispatcher's gate call exactly once
\* before its business logic runs and never skips it; the business logic of
\* GET / calls the gate a second time, so the gate runs twice in a request of
\* GET / and once in a request of any other route.
C5_GateOnceBeforeLogic ==
  /\ Finished =>
       /\ done.trace[2] \in {"gate+", "gate-"}
       /\ done.ran => SubSeq(done.trace, 1, 3) = <<"ct", "gate+", "f">>
       /\ GateCalls(done) = IF done.f = "rootPage" THEN 2 ELSE 1
  /\ \A c \in InFlight : c.trace = <<"ct", "gate+">>

\* C5 witness: a request of GET / ran the gate twice
C5_Witness ==
  /\ Finished /\ done.f = "rootPage" /\ GateCalls(done) = 2
  /\ done.trace[2] = "gate+" /\ done.trace[4] = "gate-"

\* C6: the steps of a request run in the order content type, gate, business
\* logic, error translation; the content type is set before any status or
\* body is written and is the one of the route's kind; business logic only
\* follows a gate call that returned no error.
C6_DispatchOrder ==
  /\ Finished =>
       /\ done.trace[1] = "ct"
       /\ done.trace[2] \in {"gate+", "gate-"}
       /\ \A i \in DOMAIN done.trace :
            /\ done.trace[i] = "ct" => i = 1
            /\ done.trace[i] = "f" => i = 3 /\ done.trace[2] = "gate+"
            /\ done.trace[i] = "writeError" => i > 2 /\ (done.ran => i > 3)
       /\ done.ctype = IF done.rt = JSON THEN "application/json"
                       ELSE "text/html; charset=utf-8"
  /\ \A c \in InFlight :
       /\ c.trace = <<"ct", "gate+">>
       /\ c.status = 0 /\ c.body = <<>>
       /\ c.ctype = IF c.rt = JSON THEN "application/json"
                    ELSE "text/html; charset=utf-8"

\* C6 witness: a JSON route failed in its business logic after the gate passed
C6_Witness ==
  /\ Finished /\ done.rt = JSON /\ done.ctype = "application/json"
  /\ done.trace = <<"ct", "gate+", "f", "writeError", "log">>

\* C7 (as claimed): when a request ends in an error, nothing of the response
\* was written before the 500: the status sent is 500, no WriteHeader came
\* too late and the body holds the error rendering only.
C7_NoPartialResponse ==
  (Finished /\ done.err # nil)
     => /\ done.status = StatusInternalServerError
        /\ ~done.superfluous
        /\ Len(done.body) = 1
        /\ done.body[1].k \in {"error", "errorPage"}

\* C8 (as claimed): POST /signout with the cookie of an issued session and its
\* token completes without error, clears the cookie and redirects to /, also
\* when the session was signed out before.
C8_SignoutIdempotent ==
  (Finished /\ done.f = "signout" /\ done.sid \in SIDs /\ done.sid < nextSid
     /\ done.tok = "match" /\ done.gsess # "expired" /\ done.gerr # errBackendUnavailable)
     => /\ done.err = nil
        /\ done.status = StatusFound /\ done.location = "/"
        /\ CookieCleared(done)

\* C8 (amended): POST /signout runs only behind the gate. With a valid session
\* and its token it completes without error, destroys the session, clears the
\* cookie and redirects to /; a second POST /signout with the same cookie and
\* token finds the session unknown: InvalidSession, 500, the handler does not
\* run and the cookie is left alone.
C8_SignoutOnceThenInvalid ==
  Finished /\ done.f = "signout" =>
    /\ done.ran => /\ done.gsess \in ValidClasses /\ done.tok = "match"
                   /\ done.err = nil
                   /\ done.status = StatusFound /\ done.location = "/"
                   /\ CookieCleared(done)
                   /\ store[done.s].state = "none"
    /\ done.gsess = "unknown" =>
                   /\ done.err = errInvalidSession
                   /\ done.status = StatusInternalServerError
                   /\ ~done.ran /\ ~done.cookie.set /\ done.location = ""

\* C8 witness: the second POST /signout of an issued, destroyed session
C8_Witness ==
  /\ Finished /\ done.f = "signout" /\ done.sid \in SIDs /\ done.sid < nextSid
  /\ done.gsess = "unknown" /\ done.tok = "match"
  /\ done.status = StatusInternalServerError /\ ~done.cookie.set

\* C9: when GET /oauth_callback reaches its promote step and the session is
\* not in the store (destroyed by a POST /signout in between), the request
\* ends in an error response, not in a redirect to /, a promote that was
\* attempted failed with NotFound, and the store still has no session under
\* that identifier.
C9_PromoteNeverResurrects ==
  [][\A c \in InFlight :
       (c.f = "oauthCallback" /\ gated' = Take(c) /\ store[c.s].state = "none")
         => /\ done'.pc = "done" /\ done'.f = "oauthCallback"
            /\ done'.err # nil
            /\ done'.core => done'.err = errNotFound
            /\ done'.status = StatusInternalServerError
            /\ done'.location # "/"
            /\ store'[c.s].state = "none"]_vars

\* C9 witness: a callback whose session was destroyed after its gate ended
\* with NotFound
C9_Witness ==
  /\ Finished /\ done.f = "oauthCallback" /\ done.ran /\ done.core
  /\ done.err = errNotFound /\ done.status = StatusInternalServerError
  /\ store[done.s].state = "none"

\* C10: GET / with an absent, unknown or expired session (its gate call
\* reports InvalidSession) or with a session that is still anonymous answers
\* 302 to /signin, does not run the root page and logs no error; any other
\* gate error is answered with a 500 error page and no redirect.
C10_RootSoftInvalidSession ==
  Finished /\ done.f = "rootPage" =>
    /\ done.gsess \in InvalidClasses => done.gerr = errInvalidSession
    /\ (done.gerr = errInvalidSession \/ (done.gerr = nil /\ done.gsess = "anonymous"))
         => /\ done.status = StatusFound /\ done.location = "/signin"
            /\ ~done.core /\ done.body = <<>>
            /\ done.logged = <<nil>>
    /\ done.gerr \notin {nil, errInvalidSession}
         => /\ done.status = StatusInternalServerError
            /\ done.location = ""
            /\ done.logged = <<done.gerr>>
            /\ done.body = <<chunk("errorPage", "retry")>>

\* C10 witness: GET / with an expired session was redirected to /signin
C10_Witness ==
  /\ Finished /\ done.f = "rootPage" /\ done.gsess = "expired"
  /\ done.status = StatusFound /\ done.location = "/signin" /\ done.logged = <<nil>>

\* the rendering writeError gives an error on a route of kind rt
ErrorBody(c) ==
  IF c.rt = JSON
    THEN <<chunk("error", c.err)>>
    ELSE <<chunk("errorPage", IF c.method = MethodGet THEN "retry" ELSE "noretry")>>

\* C11 (as claimed): a request that ends in an error of the gate or of its
\* business logic is answered with status 500; on an HTML route the body is
\* the error page whose retry flag is set if and only if the method is GET,
\* on a JSON route the body is {"error": message of the terminating error}.
C11_ErrorResponses ==
  (Finished /\ done.err # nil)
     => /\ done.status = StatusInternalServerError
        /\ done.body = ErrorBody(done)

\* C12: the business logic of POST /signin either creates exactly one session,
\* anonymous and bound to the instance of the form, sets the session_id cookie
\* to that session's identifier with Expires 365 days ahead and answers 302
\* with the authorization URL as Location, or (session creation failed)
\* leaves the store alone, sets no cookie, issues no redirect and answers 500.
C12_SigninCreatesSession ==
  [][\A c \in InFlight :
       (c.f = "signin" /\ gated' = Take(c))
         => /\ done'.pc = "done" /\ done'.f = "signin" /\ done'.ran
            /\ \/ /\ done'.err = nil
                  /\ \E sid \in SIDs :
                       /\ store[sid].state = "none"
                       /\ store'[sid].state = "anonymous"
                       /\ store'[sid].instance \in Instances
                       /\ \A o \in SIDs \ {sid} : store'[o] = store[o]
                       /\ done'.cookie = [set |-> TRUE, value |-> sid,
                                          expiresIn |-> 365 * 24]
                  /\ done'.status = StatusFound
                  /\ done'.location = "authURL"
                  /\ done'.body = <<>>
               \/ /\ done'.err = errBackendUnavailable
                  /\ store' = store
                  /\ ~done'.cookie.set
                  /\ done'.location = ""
                  /\ done'.status = StatusInternalServerError]_vars

\* C12 witness: POST /signin without a cookie created the anonymous session
\* its cookie names and was redirected to the authorization URL
C12_Witness ==
  /\ Finished /\ done.f = "signin" /\ done.sid = NoSid /\ done.err = nil
  /\ done.cookie.set /\ done.cookie.value \in SIDs
  /\ done.cookie.expiresIn = sessionExp
  /\ store[done.cookie.value].state = "anonymous"
  /\ store[done.cookie.value].instance = "example.social"
  /\ done.status = StatusFound /\ done.location = "authURL"

\* C13: the business logic of GET /oauth_callback for a session that is
\* anonymous either (the backend accepted the code) makes that session
\* authenticated and redirects to /, or leaves the store as it was and answers
\* with a 500 error and no redirect. No step takes a session from
\* authenticated back to anonymous or revives an expired session, only a
\* successful callback of that session makes it authenticated, and a session
\* has one state at a time.
C13_CallbackPromotes ==
  [][/\ \A c \in InFlight :
          (c.f = "oauthCallback" /\ gated' = Take(c)
             /\ sessionClass(store, c.s) = "anonymous")
            => /\ done'.pc = "done" /\ done'.f = "oauthCallback"
               /\ \/ /\ done'.err = nil
                     /\ store' = [store EXCEPT ![c.s].state = "authenticated"]
                     /\ done'.status = StatusFound
                     /\ done'.location = "/"
                  \/ /\ done'.err # nil
                     /\ store' = store
                     /\ done'.status = StatusInternalServerError
                     /\ done'.location = ""
                     /\ done'.body = <<chunk("errorPage", "retry")>>
     /\ \A s \in SIDs :
          /\ store'[s].state \in {"none", "anonymous", "authenticated", "expired"}
          /\ store[s].state = "authenticated" => store'[s].state # "anonymous"
          /\ store[s].state = "expired" => store'[s].state \in {"expired", "none"}
          /\ (store[s].state # "authenticated" /\ store'[s].state = "authenticated")
               => /\ store[s].state = "anonymous"
                  /\ done'.f = "oauthCallback" /\ done'.s = s /\ done'.err = nil
    ]_vars

\* C13 witness: a callback with the cookie of an anonymous session made the
\* session authenticated and was redirected to /
C13_Witness ==
  /\ Finished /\ done.f = "oauthCallback" /\ done.gsess = "anonymous"
  /\ done.err = nil /\ done.status = StatusFound /\ done.location = "/"
  /\ store[done.s].state = "authenticated"

\* the keys of the JSON objects in the body of a response
BodyKeys(c) == {c.body[i].k : i \in DOMAIN c.body}

\* C14 (as claimed): a request of a fluoride route with a valid session and
\* the matching token whose action succeeded is answered 200 with
\* Content-Type application/json and the body {"data": count the action
\* returned}; no response of a fluoride route is a redirect, and each holds
\* exactly one of the keys data and error.
C14_FluorideJson ==
  (Finished /\ done.f = "fluoride") =>
    /\ done.status # StatusFound /\ done.location = ""
    /\ BodyKeys(done) \in {{"data"}, {"error"}}
    /\ (done.gsess \in ValidClasses /\ done.tok = "match" /\ done.effect)
         => /\ done.status = StatusOK
            /\ done.ctype = "application/json"
            /\ done.body = <<chunk("data", done.count)>>

\* what the caller and the log see of a request
Observable(c) ==
  [pc |-> c.pc, status |-> c.status, ctype |-> c.ctype, location |-> c.location,
   cookie |-> c.cookie, body |-> c.body, err |-> c.err, logged |-> c.logged,
   ran |-> c.ran, core |-> c.core, effect |-> c.effect]

\* the inputs, besides the request, that a route without a gate level reads
LogicInputs(at) ==
  IF at = NOAUTH
    THEN [res : {"ok", "err"}, single : BOOLEAN, ok : BOOLEAN]
    ELSE [res : {"ok"}, single : {TRUE}, ok : {TRUE}]

\* the outcome of a request of closure cl carrying identifier sid, served in
\* the current store with the given other inputs: the answer of the gate, or
\* of the business logic where a route runs it without a session
Outcome(cl, sid, csrf, backendOK, in) ==
  LET c == handleEnter(newClient(cl.h, cl.method, sid), csrf, store, backendOK)
      ns == sNewSession(store, nextSid, "example.social", in.ok)
      b == CASE c.f = "rootPage" -> fRootPage(enter(c), csrf, store, backendOK, in.res)
             [] c.f = "signinPage" -> fSigninPage(enter(c), in.single, ns, in.res)
             [] c.f = "signin" -> fSignin(enter(c), ns)
             [] OTHER -> [c |-> c, err |-> nil]
  IN  Observable(IF c.pc = "gated" /\ c.at = NOAUTH THEN handleExit(b.c, b.err) ELSE c)

\* the identifiers a request can carry that name no unexpired session
InvalidSids == {sid \in SidInputs : sessionClass(store, sid) \in InvalidClasses}

\* no request is in flight or waits to be discarded. Every store the server
\* reaches is reached in such a state too, and Outcome reads the store only.
Quiet == Idle /\ gated = EmptyBag

\* C15: in every store the server reaches, for every route and all other
\* inputs alike, the requests without a cookie, with an identifier the store
\* does not hold and with the identifier of an expired session have the same
\* outcome: same status, headers, body and error, same decision whether
\* business logic runs; where a session is required that outcome is
\* InvalidSession before business logic.
C15_InvalidIndistinguishable ==
  Quiet =>
    \A cl \in Closures, sid \in InvalidSids :
      \A csrf \in CsrfInputs, backendOK \in BOOLEAN, in \in LogicInputs(cl.h.at) :
        /\ Outcome(cl, sid, csrf, backendOK, in) = Outcome(cl, NoSid, csrf, backendOK, in)
        /\ cl.h.at # NOAUTH =>
             /\ Outcome(cl, sid, csrf, backendOK, in).err = errInvalidSession
             /\ ~Outcome(cl, sid, csrf, backendOK, in).ran

\* C15 witness: a request of a page with the identifier of an expired session
\* was answered as the same request is without a cookie and with an
\* identifier never issued: 500, InvalidSession, no business logic
C15_Witness ==
  /\ Finished /\ done.f = "page" /\ done.gsess = "expired"
  /\ sessionClass(store, done.sid) = "expired"
  /\ BogusSid \in InvalidSids
  /\ LET cl == [h |-> navPage, method |-> MethodGet]
         in == [res |-> "ok", single |-> TRUE, ok |-> TRUE]
     IN  /\ Observable(done) = Outcome(cl, done.sid, NoToken, TRUE, in)
         /\ Observable(done) = Outcome(cl, NoSid, NoToken, TRUE, in)
         /\ Observable(done) = Outcome(cl, BogusSid, NoToken, TRUE, in)
  /\ done.status = StatusInternalServerError
  /\ done.err = errInvalidSession /\ ~done.ran

\* a context holds what its own request brought: the session it resolved is
\* the one its own cookie names, and its log record is its own error
OwnContext(c) ==
  /\ c.s \in {NoSid, c.sid}
  /\ c.at # NOAUTH /\ (c.pc = "gated" \/ c.ran) => c.s = c.sid /\ c.s \in SIDs
  /\ c.pc = "gated" => c.err = nil /\ c.logged = <<>> /\ c.body = <<>>
  /\ c.pc = "done" =>
       /\ c.logged = <<c.err>>
       /\ c.err # nil => c.body[Len(c.body)] = ErrorBody(c)[1]

\* C16: every step touches the context of one request only. The business
\* logic step of a request finishes that request with its own identifier,
\* resolved session (GET / resolves it in this step, from its own cookie),
\* token and gate trace and logs its own error, whatever else is in flight
\* (requests with the same session identifier included);
\* an arriving request adds its own context; the contexts of the other
\* requests in flight stay as they are.
C16_ContextPerRequest ==
  /\ [](\A c \in InFlight \cup {done} : OwnContext(c))
  /\ [][/\ \/ gated' = gated
           \/ \E c \in InFlight : gated' = Take(c)
           \/ \E c \in BagToSet(gated') : gated' = gated (+) SetToBag({c})
        /\ \A c \in InFlight :
             gated' = Take(c) =>
               /\ done'.pc = "done"
               /\ done'.sid = c.sid /\ done'.tok = c.tok
               /\ done'.s = IF c.f = "rootPage" /\ done'.gerr # errInvalidSession
                             THEN c.sid ELSE c.s
               /\ done'.f = c.f /\ done'.method = c.method
               /\ SubSeq(done'.trace, 1, 3) = Append(c.trace, "f")
               /\ done'.logged = <<done'.err>>
        /\ (gated' # gated /\ ~\E c \in InFlight : gated' = Take(c)) => done' = done
       ]_vars

\* C16 witness: a request ended in an error while another request with the
\* same session identifier is in flight with no error and no log record
C16_Witness ==
  /\ Finished /\ done.err = errBackendUnavailable /\ done.s \in SIDs
  /\ done.logged = <<errBackendUnavailable>>
  /\ \E c \in InFlight :
       /\ c.sid = done.sid /\ c.s = done.s /\ c.f # done.f
       /\ c.err = nil /\ c.logged = <<>> /\ c.status = 0

\* the routes served by the root page, as (method, path)
RootPageRoutes ==
  {<<rt.method, rt.path>> : rt \in {x \in Routes : x.h.f = "rootPage"}}

\* C17: the only route served by the root page is GET /. On every other
\* route a gate failure with InvalidSession comes from the dispatcher's gate
\* call of a route registered SESSION or CSRF and is answered 500 with the
\* error rendering of the route's kind, without a redirect and without
\* business logic; on GET / it is answered with the redirect to /signin. A
\* Location of /signin on another route is the referrer that a request sent
\* with an action that passed the gate and succeeded.
C17_OnlyRootIsSoft ==
  /\ RootPageRoutes = {<<MethodGet, "/">>}
  /\ (Finished /\ done.gerr = errInvalidSession) =>
       IF done.f = "rootPage"
         THEN /\ done.status = StatusFound /\ done.location = "/signin"
              /\ done.err = nil
         ELSE /\ done.at \in {SESSION, CSRF}
              /\ done.err = errInvalidSession
              /\ done.status = StatusInternalServerError
              /\ done.location = ""
              /\ done.ctype = ContentType(done.rt)
              /\ done.body = ErrorBody(done)
              /\ ~done.ran
  /\ (Finished /\ done.location = "/signin" /\ done.f # "rootPage") =>
       /\ done.f \in {"post", "action"}
       /\ done.gerr = nil /\ done.err = nil /\ done.ran /\ done.effect

\* C17 witness: GET /oauth_callback without a session was answered with the
\* 500 error page, not with a redirect
C17_Witness ==
  /\ Finished /\ done.f = "oauthCallback" /\ done.gsess = "absent"
  /\ done.gerr = errInvalidSession
  /\ done.status = StatusInternalServerError /\ done.location = ""
  /\ done.body = <<chunk("errorPage", "retry")>>

\* the handlers that act on the remote account or on the session
ActionHandlers ==
  {"post", "statusAction", "vote", "action", "settings", "signout", "fluoride"}

\* the levels of the route table, by method
PostRoutesAreCsrf ==
  \A rt \in Routes :
    /\ (rt.method = MethodPost /\ rt.path # "/signin") => rt.h.at = CSRF
    /\ (rt.method = MethodPost /\ rt.path = "/signin") => rt.h.at = NOAUTH
    /\ rt.method = MethodGet => rt.h.at # CSRF
    /\ rt.h.f \in ActionHandlers <=> (rt.method = MethodPost /\ rt.path # "/signin")

\* C18: every route registered for POST except POST /signin is registered
\* CSRF, POST /signin is NOAUTH and no route registered for GET is CSRF; so
\* no handler of a POST route other than /signin has been entered, or waits
\* to be entered, for a request that did not present the token of its valid
\* session.
C18_PostRoutesCsrfGated ==
  /\ PostRoutesAreCsrf
  /\ \A c \in InFlight \cup {done} :
       (c.f \in ActionHandlers \/ (c.method = MethodPost /\ c.f # "signin"))
         => /\ c.at = CSRF /\ c.method = MethodPost
            /\ (c.pc = "gated" \/ c.ran \/ c.core \/ c.effect \/ c.cookie.set)
                 => c.tok = "match" /\ c.gsess \in ValidClasses /\ c.gerr = nil

\* C18 witness: POST /post ran for a request that presented the token of its
\* authenticated session
C18_Witness ==
  /\ Finished /\ done.f = "post" /\ done.method = MethodPost
  /\ done.gsess = "authenticated" /\ done.tok = "match"
  /\ done.ran /\ done.effect /\ done.err = nil

\* C19: the session_id cookie is set only by a request that ended without
\* error in the business logic of GET /signin or POST /signin, after the
\* session it names was created, with Expires 365 days ahead, or of POST
\* /signout, after the gate passed, with an empty value and no time left;
\* every other route, every request that failed at the gate or in its
\* business logic and every request still in flight has no cookie written.
C19_CookieWriters ==
  /\ \A c \in InFlight : ~c.cookie.set
  /\ Finished =>
       /\ done.cookie.set =>
            /\ done.f \in {"signinPage", "signin", "signout"}
            /\ done.ran /\ done.err = nil /\ done.trace[2] = "gate+"
            /\ done.status = StatusFound
            /\ IF done.f = "signout"
                 THEN CookieCleared(done) /\ done.tok = "match"
                 ELSE /\ done.cookie.value \in SIDs
                      /\ done.cookie.value = nextSid - 1
                      /\ store[done.cookie.value].state = "anonymous"
                      /\ done.cookie.expiresIn = sessionExp
       /\ (done.err # nil \/ ~done.ran) => done.cookie = NoCookie
       /\ (done.f = "signout" /\ done.ran) => done.cookie.set
       /\ (done.f = "signin" /\ done.err = nil) => done.cookie.set
       /\ (done.f = "signinPage" /\ done.status = StatusFound) => done.cookie.set

\* C19 witness: GET /signin of a single-instance deployment created a session
\* and set the cookie to its identifier
C19_Witness ==
  /\ Finished /\ done.f = "signinPage" /\ done.err = nil
  /\ done.cookie.set /\ done.cookie.value \in SIDs
  /\ done.cookie.expiresIn = sessionExp
  /\ store[done.cookie.value].state = "anonymous"
  /\ done.status = StatusFound /\ done.location = "authURL"

====
